---------------------------- MODULE Spec2Model ----------------------------
(***************************************************************************)
(* Dashboard sharing of the portfolio application: the shared_dashboards   *)
(* and dashboard_views tables with their row-level policies, the SQL       *)
(* functions track_dashboard_view and get_dashboard_view_stats, and the    *)
(* client services SharingService and PublicProjectService that reach the  *)
(* tables through one REST round trip per query.                           *)
(*                                                                         *)
(* Every round trip is one atomic step of the backend; a service method    *)
(* that awaits several round trips is a process with one step per query,   *)
(* so calls of different browser tabs and visitors interleave between      *)
(* queries.  A round trip may fail in transport (ok = FALSE): the          *)
(* statement is then not applied and the client gets an error object.      *)
(***************************************************************************)
EXTENDS Integers, Sequences, FiniteSets, TLC

\* ------------------------------------------------------------- bounds
NumUsers == 2
MaxTokens == 2
MaxTime == 1
NumCreators == 2
NumTrackers == 2
MaxProjects == 1
MaxListed == 3
MaxPending == 2
MaxViews == 11
MaxAddressed == 2
MaxDirect == 1

Users == 1..NumUsers
Creators == 1..NumCreators
Trackers == 1..NumTrackers
Viewers == {1}

\* auth.getUser() yields a user or null; auth.uid() of an anonymous request is null
NoUser == 0
Callers == Users \cup {NoUser}

\* expires_at is NULL or a timestamp
NoExpiry == -1
ExpiryInputs == {NoExpiry} \cup (1..MaxTime)

\* a token string that generateSecureToken never produces, and the null token
BogusToken == 0
NoToken == -1
NoRow == 0

NoIp == "null"
IpInputs == {NoIp, "1.2.3.4"}
AddressInputs == IpInputs \cup {"5.6.7.8"}

GithubInputs == {"https://github.com/x/demo"}

\* ------------------------------------------------------------- errors
NoError == [message |-> "", code |-> ""]
NotAuthenticated == [message |-> "User not authenticated", code |-> ""]
InvalidToken == [message |-> "Invalid or expired share token", code |-> ""]
NoStatistics == [message |-> "No statistics found for this dashboard", code |-> ""]
\* the error object PostgREST returns for .single() on zero (or several) rows
NoRowsError == [message |-> "JSON object requested, multiple (or no) rows returned", code |-> "PGRST116"]
\* any other error object of the storage layer (network, constraint, server)
StorageError == [message |-> "storage failure", code |-> "XX000"]

\* ------------------------------------------------------------- state
VARIABLES
  shared,        \* table shared_dashboards: sequence of rows, id = index
  views,         \* table dashboard_views: sequence of rows, id = index
  projects,      \* table projects: sequence of rows, id = index = creation order
  now,           \* the backend's clock, now()
  creator,       \* createShareToken calls in flight
  tracker,       \* track_dashboard_view calls
  viewer,        \* the SharedDashboard page: its load in flight and what it shows
  revoked,       \* history: tokens that were active when a deactivation succeeded
  lastRet,       \* the value returned by the service call that completed last
  modal,         \* ShareDashboardModal: what the dialog shows and its call in flight
  auth           \* AuthProvider: its state, its timer and its pending callbacks

vars == <<shared, views, projects, now, creator, tracker, viewer, revoked, lastRet,
          modal, auth>>

\* table profiles: one row per user, created at sign-up
profiles == [u \in Users |->
  [id |-> u, user_id |-> u,
   display_name |-> IF u = 1 THEN "Evan" ELSE "",
   email |-> IF u = 1 THEN "evan@example.com" ELSE "other@example.com"]]

NoProfile == [id |-> 0, displayName |-> "", email |-> ""]
NoStats == [found |-> FALSE, totalViews |-> 0, uniqueIps |-> 0, recentViews |-> <<>>]

Ret0 == [op |-> "", caller |-> NoUser, token |-> NoToken,
         userId |-> NoUser, shareToken |-> NoToken, isValid |-> FALSE,
         projects |-> <<>>, profile |-> NoProfile, stats |-> NoStats,
         updated |-> 0, error |-> NoError]

\* ------------------------------------------------------------- helpers
Ids(tbl) == DOMAIN tbl

ActiveIn(tbl, u) == {i \in Ids(tbl) : tbl[i].user_id = u /\ tbl[i].is_active}

RowsOfToken(tbl, t) == {i \in Ids(tbl) : tbl[i].share_token = t}

\* the tokens a visitor can present: those stored so far, and one that never is
StoredTokens == {shared[i].share_token : i \in Ids(shared)}
TokenInputs == {BogusToken} \cup StoredTokens

\* ------------------------------------------------------------- row-level policies
\* "Public can view active shared dashboards for validation"
PublicSharePolicy(row) ==
  row.is_active = TRUE /\ (row.expires_at = NoExpiry \/ row.expires_at > now)

\* "Users can view their own shared dashboards": auth.uid() = user_id
OwnSharePolicy(row, uid) == uid # NoUser /\ uid = row.user_id

\* the rows of shared_dashboards a SELECT of caller uid may see (policies are OR-ed)
SharedVisible(uid) ==
  {i \in Ids(shared) : OwnSharePolicy(shared[i], uid) \/ PublicSharePolicy(shared[i])}

\* a policy condition that asks only for some shared dashboard of the owner
OwnerHasShared(u) ==
  \E i \in Ids(shared) : shared[i].user_id = u

\* "Public can view projects via shared dashboard" / "... profiles via shared dashboard":
\* the owner has some active, unexpired shared dashboard
OwnerIsShared(u) ==
  \E i \in Ids(shared) :
    /\ shared[i].user_id = u
    /\ shared[i].is_active = TRUE
    /\ (shared[i].expires_at = NoExpiry \/ shared[i].expires_at > now)

\* rows of projects a SELECT of caller uid may see; the owner's own rows are
\* visible to the owner by the projects table's own policy
ProjectsVisible(uid) ==
  {i \in Ids(projects) :
     (uid # NoUser /\ projects[i].user_id = uid) \/ OwnerIsShared(projects[i].user_id)}

ProfilesVisible(uid) ==
  {u \in Users : (uid # NoUser /\ u = uid) \/ OwnerIsShared(u)}

\* GET /rest/v1/shared_dashboards?select=share_token,user_id with no filter, as
\* caller uid: every row the SELECT policies let the caller see
SelectSharedDashboards(uid) ==
  {[share_token |-> shared[i].share_token, user_id |-> shared[i].user_id] :
     i \in SharedVisible(uid)}

\* "Public can insert view records": FOR INSERT WITH CHECK (true)
PublicInsertViewPolicy(row, uid) == TRUE

\* ------------------------------------------------------------- PostgREST queries
TransportFailure == [error |-> StorageError, row |-> NoRow]

\* .single(): exactly one row, or the PGRST116 error
Single(rows) ==
  IF Cardinality(rows) = 1
    THEN [error |-> NoError, row |-> CHOOSE i \in rows : TRUE]
    ELSE [error |-> NoRowsError, row |-> NoRow]

\* a filter that still accepts a record at the instant of its expiry
ValidateFilterInclusive(row, token) ==
  /\ row.share_token = token
  /\ row.is_active = TRUE
  /\ (row.expires_at = NoExpiry \/ row.expires_at >= now)

\* .eq('share_token', token).eq('is_active', true)
\* .or('expires_at.is.null,expires_at.gt.now()') of SharingService.validateShareToken
ValidateFilter(row, token) ==
  /\ row.share_token = token
  /\ row.is_active = TRUE
  /\ (row.expires_at = NoExpiry \/ row.expires_at > now)

\* a filter that does not look at is_active
PublicFilterIgnoringActive(row, token) ==
  /\ row.share_token = token
  /\ (row.expires_at = NoExpiry \/ row.expires_at > now)

\* the same filter as written in PublicProjectService
PublicFilter(row, token) ==
  /\ row.share_token = token
  /\ row.is_active = TRUE
  /\ (row.expires_at = NoExpiry \/ row.expires_at > now)

\* ascending sequence of the elements of a finite set of integers
RECURSIVE Ascending(_)
Ascending(S) ==
  IF S = {} THEN <<>>
  ELSE LET m == CHOOSE x \in S : \A y \in S : x <= y
       IN <<m>> \o Ascending(S \ {m})

\* descending sequence of the elements of a finite set of integers
RECURSIVE Descending(_)
Descending(S) ==
  IF S = {} THEN <<>>
  ELSE LET m == CHOOSE x \in S : \A y \in S : y <= x
       IN <<m>> \o Descending(S \ {m})

\* ------------------------------------------------------------- SharingService
\* generateSecureToken: 32 random bytes, base64url; a value no stored row carries
generateSecureToken == Len(shared) + 1

\* an update that flips is_active of the user's rows
ToggleAllOf(tbl, u) ==
  [i \in Ids(tbl) |->
     IF tbl[i].user_id = u THEN [tbl[i] EXCEPT !.is_active = ~tbl[i].is_active] ELSE tbl[i]]

\* an update that also sets the view counters of the user's rows back to zero
DeactivateAndResetAllOf(tbl, u) ==
  [i \in Ids(tbl) |->
     IF tbl[i].user_id = u
       THEN [tbl[i] EXCEPT !.is_active = FALSE, !.view_count = 0] ELSE tbl[i]]

\* the UPDATE of createShareToken: .update({is_active: false}).eq('user_id', user.id)
DeactivateAllOf(tbl, u) ==
  [i \in Ids(tbl) |-> IF tbl[i].user_id = u THEN [tbl[i] EXCEPT !.is_active = FALSE] ELSE tbl[i]]

\* the INSERT of createShareToken; view_count takes its column default
NewShareRow(u, token, expiresAt) ==
  [user_id |-> u, share_token |-> token, is_active |-> TRUE,
   expires_at |-> expiresAt, view_count |-> 0]

\* an update without the filter on user_id
DeactivateEveryActive(tbl, u) ==
  [i \in Ids(tbl) |->
     IF tbl[i].is_active = TRUE THEN [tbl[i] EXCEPT !.is_active = FALSE] ELSE tbl[i]]

\* the UPDATE of deactivateShareToken:
\* .update({is_active: false}).eq('user_id', user.id).eq('is_active', true)
DeactivateActiveOf(tbl, u) ==
  [i \in Ids(tbl) |->
     IF tbl[i].user_id = u /\ tbl[i].is_active = TRUE
       THEN [tbl[i] EXCEPT !.is_active = FALSE] ELSE tbl[i]]

\* a deactivation that reports an error when it found nothing to deactivate
deactivateShareTokenStrict(tbl, u, ok) ==
  IF u = NoUser THEN [shared |-> tbl, updated |-> {}, error |-> NotAuthenticated]
  ELSE IF ~ok THEN [shared |-> tbl, updated |-> {}, error |-> StorageError]
  ELSE IF ActiveIn(tbl, u) = {}
    THEN [shared |-> tbl, updated |-> {}, error |-> NoRowsError]
  ELSE [shared |-> DeactivateActiveOf(tbl, u), updated |-> ActiveIn(tbl, u),
        error |-> NoError]

\* deactivateShareToken on table tbl, as a function of the caller and of the
\* round trip's fate: the table afterwards, the rows updated, the error returned
deactivateShareToken(tbl, u, ok) ==
  IF u = NoUser THEN [shared |-> tbl, updated |-> {}, error |-> NotAuthenticated]
  ELSE IF ~ok THEN [shared |-> tbl, updated |-> {}, error |-> StorageError]
  ELSE [shared |-> DeactivateActiveOf(tbl, u), updated |-> ActiveIn(tbl, u),
        error |-> NoError]

\* a validateShareToken that reports every error of its query as an invalid token
validateShareTokenAnyError(uid, token, ok) ==
  LET q == IF ok THEN Single({i \in SharedVisible(uid) : ValidateFilter(shared[i], token)})
                 ELSE TransportFailure
  IN IF q.error # NoError
       THEN [userId |-> NoUser, error |-> InvalidToken]
       ELSE [userId |-> shared[q.row].user_id, error |-> NoError]

\* validateShareToken: the user id and the error returned
validateShareToken(uid, token, ok) ==
  LET q == IF ok THEN Single({i \in SharedVisible(uid) : ValidateFilter(shared[i], token)})
                 ELSE TransportFailure
  IN IF q.error # NoError
       THEN IF q.error.code = "PGRST116"
              THEN [userId |-> NoUser, error |-> InvalidToken]
              ELSE [userId |-> NoUser, error |-> q.error]
       ELSE [userId |-> shared[q.row].user_id, error |-> NoError]

\* .order('created_at', { ascending: false }).limit(1).single(): the newest of
\* the rows, or the PGRST116 error when there is none
NewestSingle(rows) ==
  IF rows = {}
    THEN [error |-> NoRowsError, row |-> NoRow]
    ELSE [error |-> NoError, row |-> CHOOSE i \in rows : \A j \in rows : j <= i]

\* the rows getCurrentShareToken and getCurrentShareTokenWithStats select:
\* .eq('user_id', user.id).eq('is_active', true)
CurrentOf(uid) == SharedVisible(uid) \cap ActiveIn(shared, uid)

\* a getCurrentShareToken that queries before it looks at the session
getCurrentShareTokenUnchecked(uid, ok) ==
  LET q == IF ok THEN NewestSingle(CurrentOf(uid)) ELSE TransportFailure
  IN IF q.error # NoError
       THEN IF q.error.code = "PGRST116"
              THEN [shareToken |-> NoToken, error |-> NoError]
              ELSE [shareToken |-> NoToken, error |-> q.error]
       ELSE [shareToken |-> shared[q.row].share_token, error |-> NoError]

\* SharingService.getCurrentShareToken
getCurrentShareToken(uid, ok) ==
  IF uid = NoUser THEN [shareToken |-> NoToken, error |-> NotAuthenticated]
  ELSE LET q == IF ok THEN NewestSingle(CurrentOf(uid)) ELSE TransportFailure
       IN IF q.error # NoError
            THEN IF q.error.code = "PGRST116"
                   THEN [shareToken |-> NoToken, error |-> NoError]
                   ELSE [shareToken |-> NoToken, error |-> q.error]
            ELSE [shareToken |-> shared[q.row].share_token, error |-> NoError]

\* SharingService.getCurrentShareTokenWithStats
getCurrentShareTokenWithStats(uid, ok) ==
  IF uid = NoUser
    THEN [shareToken |-> NoToken, viewCount |-> 0, error |-> NotAuthenticated]
  ELSE LET q == IF ok THEN NewestSingle(CurrentOf(uid)) ELSE TransportFailure
       IN IF q.error # NoError
            THEN IF q.error.code = "PGRST116"
                   THEN [shareToken |-> NoToken, viewCount |-> 0, error |-> NoError]
                   ELSE [shareToken |-> NoToken, viewCount |-> 0, error |-> q.error]
            ELSE [shareToken |-> shared[q.row].share_token,
                  viewCount |-> shared[q.row].view_count, error |-> NoError]

\* SharingService.getSharedDashboards: the caller's rows, newest first
getSharedDashboards(uid, ok) ==
  IF uid = NoUser THEN [dashboards |-> <<>>, error |-> NotAuthenticated]
  ELSE IF ~ok THEN [dashboards |-> <<>>, error |-> StorageError]
  ELSE LET order == Descending({i \in SharedVisible(uid) : shared[i].user_id = uid})
       IN [dashboards |->
             [k \in DOMAIN order |->
                [id |-> order[k], userId |-> shared[order[k]].user_id,
                 shareToken |-> shared[order[k]].share_token,
                 isActive |-> shared[order[k]].is_active,
                 expiresAt |-> shared[order[k]].expires_at,
                 viewCount |-> shared[order[k]].view_count]],
           error |-> NoError]

\* ------------------------------------------------------------- SQL functions
\* a lookup that does not look at is_active
TrackPredicateIgnoringActive(row, token, at) ==
  /\ row.share_token = token
  /\ (row.expires_at = NoExpiry \/ row.expires_at > at)

\* a lookup that does not look at expires_at
TrackPredicateIgnoringExpiry(row, token, at) ==
  /\ row.share_token = token
  /\ row.is_active = TRUE

\* the WHERE clause of track_dashboard_view's lookup; now() is the time the
\* function's transaction started
TrackPredicate(row, token, at) ==
  /\ row.share_token = token
  /\ row.is_active = TRUE
  /\ (row.expires_at = NoExpiry \/ row.expires_at > at)

\* SELECT id INTO dashboard_id ...: the id found, or NULL
TrackLookup(token, at) ==
  LET rows == {i \in Ids(shared) : TrackPredicate(shared[i], token, at)}
  IN IF rows = {} THEN NoRow ELSE CHOOSE i \in rows : TRUE

\* an update that writes an absolute value instead of a relative one
SetViewCountToOne(tbl, id) ==
  [tbl EXCEPT ![id].view_count = 1]

\* UPDATE shared_dashboards SET view_count = view_count + 1 WHERE id = dashboard_id
IncrementViewCount(tbl, id) ==
  [tbl EXCEPT ![id].view_count = tbl[id].view_count + 1]

\* INSERT INTO dashboard_views (...): viewed_at defaults to now()
NewViewRow(id, ip, at) ==
  [shared_dashboard_id |-> id, viewer_ip |-> ip, viewed_at |-> at]

ViewsOf(id) == {j \in Ids(views) : views[j].shared_dashboard_id = id}

\* a lookup that also asks for an unexpired record
StatsPredicateUnexpired(row, token, uid) ==
  /\ row.share_token = token
  /\ uid # NoUser /\ row.user_id = uid
  /\ row.is_active = TRUE
  /\ (row.expires_at = NoExpiry \/ row.expires_at > now)

\* a lookup that does not compare the owner with the caller
StatsPredicateAnyCaller(row, token, uid) ==
  /\ row.share_token = token
  /\ row.is_active = TRUE

\* the lookup of get_dashboard_view_stats: token, owner = auth.uid(), active
StatsPredicate(row, token, uid) ==
  /\ row.share_token = token
  /\ uid # NoUser /\ row.user_id = uid
  /\ row.is_active = TRUE

StatsLookup(token, uid) ==
  LET rows == {i \in Ids(shared) : StatsPredicate(shared[i], token, uid)}
  IN IF rows = {} THEN NoRow ELSE CHOOSE i \in rows : TRUE

StatsLimit == 10

\* viewed_at of the rows in S, latest first
RECURSIVE ViewedAtDescending(_)
ViewedAtDescending(S) ==
  IF S = {} THEN <<>>
  ELSE LET j == CHOOSE x \in S : \A y \in S : views[y].viewed_at <= views[x].viewed_at
       IN <<views[j].viewed_at>> \o ViewedAtDescending(S \ {j})

\* a limit that keeps the last n elements instead of the first n
TakeLast(s, n) == IF Len(s) <= n THEN s ELSE SubSeq(s, Len(s) - n + 1, Len(s))

Take(s, n) == IF Len(s) <= n THEN s ELSE SubSeq(s, 1, n)

\* get_dashboard_view_stats: the set of rows returned (none, or one)
get_dashboard_view_stats(token, uid) ==
  LET id == StatsLookup(token, uid)
  IN IF id = NoRow THEN {}
     ELSE {[total_views |-> Cardinality(ViewsOf(id)),
            unique_ips |-> Cardinality({views[j].viewer_ip : j \in ViewsOf(id)} \ {NoIp}),
            recent_views |-> Take(ViewedAtDescending(ViewsOf(id)), StatsLimit)]}

\* SharingService.getViewStats
getViewStats(uid, token, ok) ==
  IF uid = NoUser THEN [stats |-> NoStats, error |-> NotAuthenticated]
  ELSE IF ~ok THEN [stats |-> NoStats, error |-> StorageError]
  ELSE LET data == get_dashboard_view_stats(token, uid)
       IN IF data = {} THEN [stats |-> NoStats, error |-> NoStatistics]
          ELSE LET statsData == CHOOSE d \in data : TRUE
               IN [stats |-> [found |-> TRUE,
                              totalViews |-> statsData.total_views,
                              uniqueIps |-> statsData.unique_ips,
                              recentViews |-> statsData.recent_views],
                   error |-> NoError]

\* ------------------------------------------------------------- ProjectService
NoProject == [id |-> 0, name |-> "", projectUrl |-> "", githubUrl |-> "", createdAt |-> 0]

\* the caller's own rows of projects: .eq('user_id', user.id)
OwnProjects(uid) == {i \in ProjectsVisible(uid) : projects[i].user_id = uid}

\* ProjectService.getProjects: the caller's projects, newest first
getProjects(uid, ok) ==
  IF uid = NoUser THEN [projects |-> <<>>, error |-> NotAuthenticated]
  ELSE IF ~ok THEN [projects |-> <<>>, error |-> StorageError]
  ELSE LET order == Descending(OwnProjects(uid))
       IN [projects |->
             [k \in DOMAIN order |->
                [id |-> order[k], name |-> projects[order[k]].name,
                 projectUrl |-> projects[order[k]].project_url,
                 githubUrl |-> projects[order[k]].github_url, createdAt |-> order[k]]],
           error |-> NoError]

\* ProjectService.getProject: .eq('id', id).eq('user_id', user.id).single()
getProject(uid, id, ok) ==
  IF uid = NoUser THEN [project |-> NoProject, error |-> NotAuthenticated]
  ELSE LET q == IF ok THEN Single(OwnProjects(uid) \cap {id}) ELSE TransportFailure
       IN IF q.error # NoError THEN [project |-> NoProject, error |-> q.error]
          ELSE [project |->
                  [id |-> id, name |-> projects[id].name,
                   projectUrl |-> projects[id].project_url,
                   githubUrl |-> projects[id].github_url, createdAt |-> id],
                error |-> NoError]

\* ProjectService.updateProject, as the table afterwards and the error returned
updateProject(tbl, uid, id, gh, ok) ==
  IF uid = NoUser THEN [projects |-> tbl, error |-> NotAuthenticated]
  ELSE LET q == IF ok THEN Single({i \in Ids(tbl) : i = id /\ tbl[i].user_id = uid})
                      ELSE TransportFailure
       IN IF q.error # NoError THEN [projects |-> tbl, error |-> q.error]
          ELSE [projects |-> [tbl EXCEPT ![id].github_url = gh], error |-> NoError]

\* ProjectService.deleteProject, as the table afterwards and the error returned
deleteProject(tbl, uid, id, ok) ==
  IF uid = NoUser THEN [projects |-> tbl, error |-> NotAuthenticated]
  ELSE IF ~ok THEN [projects |-> tbl, error |-> StorageError]
  ELSE [projects |-> SelectSeq(tbl, LAMBDA r : ~(r = IF id \in Ids(tbl) THEN tbl[id] ELSE NoProject
                                                 /\ r.user_id = uid)),
        error |-> NoError]

\* ------------------------------------------------------------- PublicProjectService
\* mapDatabaseProject: the Project handed to the page
mapDatabaseProject(id) ==
  [id |-> id, name |-> projects[id].name, projectUrl |-> projects[id].project_url,
   githubUrl |-> projects[id].github_url, createdAt |-> id]

\* .from('projects').select('*').eq('user_id', userId).order('created_at', desc)
ProjectsOf(uid, userId) ==
  LET order == Descending({i \in ProjectsVisible(uid) : projects[i].user_id = userId})
  IN [k \in DOMAIN order |-> mapDatabaseProject(order[k])]

\* the PublicProfile built from the profiles row
PublicProfileOf(userId) ==
  LET p == profiles[userId]
  IN [id |-> p.id,
      displayName |-> IF p.display_name # "" THEN p.display_name
                      ELSE IF p.email # "" THEN p.email ELSE "Anonymous",
      email |-> p.email]

\* the first query of getProjectsByShareToken
ShareLookup(uid, token, ok) ==
  IF ok THEN Single({i \in SharedVisible(uid) : PublicFilter(shared[i], token)})
  ELSE TransportFailure

\* the value getProjectsByShareToken returns when the first query gives an error
ShareError(q) ==
  [projects |-> <<>>, profile |-> NoProfile,
   error |-> IF q.error.code = "PGRST116" THEN InvalidToken ELSE q.error]

\* the value getProjectsByShareToken returns when the profile query gives an error
ProfileError(q) ==
  [projects |-> <<>>, profile |-> NoProfile,
   error |-> [message |-> "Profile not found", code |-> q.error.code]]

\* the value getProjectsByShareToken returns when the projects query gives an error
ProjectsError(q) ==
  [projects |-> <<>>, profile |-> NoProfile, error |-> q.error]

\* isValidShareToken
isValidShareToken(uid, token, ok) ==
  LET q == ShareLookup(uid, token, ok)
  IN IF q.error # NoError
       THEN IF q.error.code = "PGRST116"
              THEN [isValid |-> FALSE, error |-> NoError]
              ELSE [isValid |-> FALSE, error |-> q.error]
       ELSE [isValid |-> TRUE, error |-> NoError]

\* ------------------------------------------------------------- initial state
IdleCreator ==
  [pc |-> "idle", user |-> NoUser, expires |-> NoExpiry, failed |-> FALSE, updated |-> 0]
IdleTracker == [pc |-> "idle", token |-> NoToken, ip |-> NoIp, at |-> 0,
                dashboard_id |-> NoRow, ret |-> FALSE]
IdleViewer == [pc |-> "idle", uid |-> NoUser, userId |-> NoUser, token |-> NoToken]

\* ShareDashboardModal before it is opened: useState(null) for shareToken
ClosedModal == [pc |-> "closed", user |-> NoUser, call |-> 0, shareToken |-> NoToken,
                viewCount |-> 0, viewStats |-> NoStats]

\* AuthProvider after its mount effect has run, with s the session the browser
\* holds: useState(null) for user, useState(true) for loading, the 8 s timer
\* armed, initializeAuth suspended at handleEmailConfirmation, the listener
\* subscribed with no handler running; signedOut is history: logout() has
\* completed with the session gone and no sign-in has happened since
Mounted(s) ==
  [user |-> NoUser, loading |-> TRUE, session |-> s, init |-> "confirm",
   initUser |-> NoUser, timer |-> "armed", pending |-> <<>>, login |-> NoUser,
   logout |-> "idle", signedOut |-> FALSE]

\* the backend at the start: empty tables, no call in flight
InitBackend ==
  /\ shared = <<>>
  /\ views = <<>>
  /\ projects = <<>>
  /\ now = 0
  /\ creator = [c \in Creators |-> IdleCreator]
  /\ tracker = [k \in Trackers |-> IdleTracker]
  /\ viewer = [v \in Viewers |-> IdleViewer]
  /\ revoked = {}
  /\ lastRet = Ret0
  /\ modal = ClosedModal

Init ==
  /\ InitBackend
  /\ auth = Mounted(NoUser)

\* the application is loaded in a browser that may hold a session
InitAuth ==
  /\ InitBackend
  /\ \E s \in Callers : auth = Mounted(s)

\* ------------------------------------------------------------- actions
\* the backend's clock advances
Tick ==
  /\ now < MaxTime
  /\ now' = now + 1
  /\ UNCHANGED <<shared, views, projects, creator, tracker, viewer, revoked, lastRet, modal, auth>>

\* ProjectService.createProject: getUser, then one INSERT; the table holds at
\* most n rows
createProjectUpTo(n, u, gh, ok) ==
  /\ Len(projects) < n
  /\ IF u = NoUser
       THEN /\ lastRet' = [Ret0 EXCEPT !.op = "createProject", !.error = NotAuthenticated]
            /\ UNCHANGED projects
       ELSE IF ~ok
         THEN /\ lastRet' = [Ret0 EXCEPT !.op = "createProject",
                                         !.error = StorageError]
              /\ UNCHANGED projects
         ELSE /\ projects' = Append(projects,
                   [user_id |-> u, name |-> "Demo", project_url |-> "https://demo.acme.com",
                    github_url |-> gh])
              /\ lastRet' = [Ret0 EXCEPT !.op = "createProject"]
  /\ UNCHANGED <<shared, views, now, creator, tracker, viewer, revoked, modal, auth>>

createProject(u, gh, ok) == createProjectUpTo(MaxProjects, u, gh, ok)

InFlightCreators == {c \in Creators : creator[c].pc # "idle"}

\* createShareToken, up to its first query: supabase.auth.getUser()
createShareTokenStart(c, u, expiresAt) ==
  /\ creator[c].pc = "idle"
  /\ \A d \in Creators : d < c => creator[d].pc # "idle"
  /\ Len(shared) + Cardinality(InFlightCreators) < MaxTokens
  /\ IF u = NoUser
       THEN /\ lastRet' = [Ret0 EXCEPT !.op = "createShareToken", !.error = NotAuthenticated]
            /\ UNCHANGED creator
       ELSE /\ creator' = [creator EXCEPT ![c] =
                 [pc |-> "update", user |-> u, expires |-> expiresAt, failed |-> FALSE,
                  updated |-> 0]]
            /\ UNCHANGED lastRet
  /\ UNCHANGED <<shared, views, projects, now, tracker, viewer, revoked, auth>>

\* createShareTokenStart called from outside the share dialog
CreateStart(c, u, expiresAt) == createShareTokenStart(c, u, expiresAt) /\ UNCHANGED modal

\* createShareToken: the awaited UPDATE that deactivates the user's rows; its
\* result is not read, so a failed round trip goes unnoticed (failed and
\* updated record the round trip's fate and the number of rows it changed; no
\* later step of the call reads them)
createShareTokenUpdate(c, ok) ==
  /\ creator[c].pc = "update"
  /\ shared' = IF ok THEN DeactivateAllOf(shared, creator[c].user) ELSE shared
  /\ creator' = [creator EXCEPT
       ![c].pc = "insert", ![c].failed = ~ok,
       ![c].updated = IF ok THEN Cardinality(ActiveIn(shared, creator[c].user)) ELSE 0]
  /\ UNCHANGED <<views, projects, now, tracker, viewer, revoked, lastRet, auth>>

\* createShareTokenUpdate called from outside the share dialog
CreateDeactivate(c, ok) == createShareTokenUpdate(c, ok) /\ UNCHANGED modal

\* createShareToken: generateSecureToken, the INSERT ... .select('share_token').single(),
\* and the return
createShareTokenInsert(c, ok) ==
  /\ creator[c].pc = "insert"
  /\ LET newToken == generateSecureToken
     IN IF ok
          THEN /\ shared' = Append(shared,
                     NewShareRow(creator[c].user, newToken, creator[c].expires))
               /\ lastRet' = [Ret0 EXCEPT !.op = "createShareToken",
                                          !.shareToken = newToken]
          ELSE /\ UNCHANGED shared
               /\ lastRet' = [Ret0 EXCEPT !.op = "createShareToken",
                                          !.error = StorageError]
  /\ creator' = [creator EXCEPT ![c] = IdleCreator]
  /\ UNCHANGED <<views, projects, now, tracker, viewer, revoked, auth>>

\* createShareTokenInsert called from outside the share dialog
CreateInsert(c, ok) == createShareTokenInsert(c, ok) /\ UNCHANGED modal

\* SharingService.deactivateShareToken: getUser, then one UPDATE
deactivateShareTokenCall(u, ok) ==
  LET r == deactivateShareToken(shared, u, ok)
  IN /\ shared' = r.shared
     /\ revoked' = revoked \cup {shared[i].share_token : i \in r.updated}
     /\ lastRet' = [Ret0 EXCEPT !.op = "deactivateShareToken",
                                !.updated = Cardinality(r.updated), !.error = r.error]
     /\ UNCHANGED <<views, projects, now, creator, tracker, viewer, auth>>

\* deactivateShareTokenCall called from outside the share dialog
Deactivate(u, ok) == deactivateShareTokenCall(u, ok) /\ UNCHANGED modal

\* ShareDashboardModal opens: the effect runs loadCurrentShareToken, which sets
\* shareToken and viewCount from getCurrentShareTokenWithStats unless that
\* returned an error, and then loadViewStats for the token found
ModalOpen(u, ok, okStats) ==
  /\ modal.pc = "closed"
  /\ modal.user \in {NoUser, u}
  /\ LET r == getCurrentShareTokenWithStats(u, ok)
         st == getViewStats(u, r.shareToken, okStats)
     IN /\ modal' =
             IF r.error # NoError
               THEN [modal EXCEPT !.pc = "idle", !.user = u]
               ELSE [modal EXCEPT !.pc = "idle", !.user = u,
                                  !.shareToken = r.shareToken,
                                  !.viewCount = r.viewCount,
                                  !.viewStats =
                                     IF r.shareToken # NoToken /\ st.error = NoError
                                       THEN st.stats ELSE modal.viewStats]
        /\ lastRet' = [Ret0 EXCEPT !.op = "getCurrentShareTokenWithStats",
                                   !.caller = u, !.shareToken = r.shareToken,
                                   !.error = r.error]
  /\ UNCHANGED <<shared, views, projects, now, creator, tracker, viewer, revoked, auth>>

\* the dialog is closed; the component stays mounted and keeps its state
ModalClose ==
  /\ modal.pc = "idle"
  /\ modal' = [modal EXCEPT !.pc = "closed"]
  /\ UNCHANGED <<shared, views, projects, now, creator, tracker, viewer, revoked,
                 lastRet, auth>>

\* generateShareLink: setIsGenerating(true) and the call of createShareToken
ModalGenerate(c) ==
  /\ modal.pc = "idle"
  /\ createShareTokenStart(c, modal.user, NoExpiry)
  /\ modal' = IF creator'[c].pc = "idle" THEN modal
              ELSE [modal EXCEPT !.pc = "generating", !.call = c]

\* generateShareLink waits while createShareToken runs its UPDATE
ModalGenerateUpdate(ok) ==
  /\ modal.pc = "generating"
  /\ createShareTokenUpdate(modal.call, ok)
  /\ UNCHANGED modal

\* createShareToken returns to generateShareLink: on an error only a toast, else
\* setShareToken(newToken), setViewCount(0), setViewStats(null)
ModalGenerateInsert(ok) ==
  /\ modal.pc = "generating"
  /\ createShareTokenInsert(modal.call, ok)
  /\ modal' = IF lastRet'.error # NoError
                THEN [modal EXCEPT !.pc = "idle", !.call = 0]
                ELSE [modal EXCEPT !.pc = "idle", !.call = 0,
                                   !.shareToken = lastRet'.shareToken,
                                   !.viewCount = 0, !.viewStats = NoStats]

\* deactivateShareLink: on an error only a toast, else setShareToken(null),
\* setViewCount(0), setViewStats(null)
ModalDeactivate(ok) ==
  /\ modal.pc = "idle"
  /\ deactivateShareTokenCall(modal.user, ok)
  /\ modal' = IF lastRet'.error # NoError THEN modal
              ELSE [modal EXCEPT !.shareToken = NoToken, !.viewCount = 0,
                                 !.viewStats = NoStats]

\* ------------------------------------------------------------- AuthProvider
\* what the AuthProvider actions leave alone
backend == <<shared, views, projects, now, creator, tracker, viewer, revoked,
             lastRet, modal>>

\* initializeAuth has settled: finally { setLoading(false) }, then
\* initializeAuth().finally(() => clearTimeout(timeoutId))
InitSettled(a) ==
  [a EXCEPT !.loading = FALSE, !.init = "done",
            !.timer = IF a.timer = "armed" THEN "cleared" ELSE a.timer]

\* the listener's handler starts for an event carrying session user u: with a
\* user it begins the profile lookup and stays pending, without one it calls
\* back at once: setUser(null), setLoading(false)
Emit(a, u) ==
  IF u = NoUser THEN [a EXCEPT !.user = NoUser, !.loading = FALSE]
  ELSE [a EXCEPT !.pending = Append(a.pending, u)]

\* handleEmailConfirmation returns: with the tokens of user u in the URL hash
\* and setSession succeeding it returns true, initializeAuth returns and its
\* finally runs; otherwise initializeAuth goes on to the connection test
InitConfirm(u, ok) ==
  /\ auth.init = "confirm"
  /\ Len(auth.pending) < MaxPending
  /\ auth' = IF u # NoUser /\ ok
               THEN InitSettled(Emit([auth EXCEPT !.session = u, !.signedOut = FALSE], u))
               ELSE [auth EXCEPT !.init = "fetch"]
  /\ UNCHANGED backend

\* the connection test fetch settles: resolved, getCurrentUser is called;
\* rejected, catch { setUser(null) } and finally
InitFetch(ok) ==
  /\ auth.init = "fetch"
  /\ auth' = IF ok THEN [auth EXCEPT !.init = "getUser"]
               ELSE InitSettled([auth EXCEPT !.user = NoUser])
  /\ UNCHANGED backend

\* getCurrentUser: the race of supabase.auth.getUser() with its 5 s timeout
\* settles; with a user it goes on to the profile lookup, with none, an error
\* or the timeout it returns user null and initializeAuth does setUser(null)
InitGetUser(ok) ==
  /\ auth.init = "getUser"
  /\ auth' = IF ok /\ auth.session # NoUser
               THEN [auth EXCEPT !.init = "profile", !.initUser = auth.session]
               ELSE InitSettled([auth EXCEPT !.user = NoUser])
  /\ UNCHANGED backend

\* getCurrentUser: the race of the profile lookup with its 3 s timeout settles,
\* the user is returned either way and initializeAuth does setUser(currentUser)
InitProfile ==
  /\ auth.init = "profile"
  /\ auth' = InitSettled([auth EXCEPT !.user = auth.initUser, !.initUser = NoUser])
  /\ UNCHANGED backend

\* a timer callback that leaves loading as it is
TimerIgnored(a) == [a EXCEPT !.timer = "fired"]

\* the 8 s timer's callback: setLoading(false)
TimerCallback(a) == [a EXCEPT !.loading = FALSE, !.timer = "fired"]

TimerFires ==
  /\ auth.timer = "armed"
  /\ auth' = TimerCallback(auth)
  /\ UNCHANGED backend

\* the auth client reports an event for the session it holds (initial session,
\* token refreshed) and the listener's handler starts
AuthEvent ==
  /\ Len(auth.pending) < MaxPending
  /\ auth' = Emit(auth, auth.session)
  /\ UNCHANGED backend

\* a pending handler's race of the profile lookup with its 3 s timeout settles
\* and it calls back either way: setUser(authUser), setLoading(false)
Callback(a, i) ==
  [a EXCEPT !.user = a.pending[i],
            !.loading = FALSE,
            !.pending = SubSeq(a.pending, 1, i - 1) \o SubSeq(a.pending, i + 1, Len(a.pending))]

AuthCallback(i) ==
  /\ i \in DOMAIN auth.pending
  /\ auth' = Callback(auth, i)
  /\ UNCHANGED backend

\* login: signInWithPassword settles; on success the client holds the session
\* of u, reports the sign-in to the listener and signIn goes on to the profile
\* lookup; on an error login returns false
LoginStart(u, ok) ==
  /\ auth.login = NoUser
  /\ auth.user = NoUser
  /\ Len(auth.pending) < MaxPending
  /\ auth' = IF ok
               THEN Emit([auth EXCEPT !.session = u, !.login = u, !.signedOut = FALSE], u)
               ELSE auth
  /\ UNCHANGED backend

\* login: signIn returns the user and login does setUser(authUser)
LoginDone ==
  /\ auth.login # NoUser
  /\ auth' = [auth EXCEPT !.user = auth.login, !.login = NoUser]
  /\ UNCHANGED backend

\* logout: supabase.auth.signOut() settles; on success the session is gone and
\* the sign-out is reported to the listener, on an error it is only logged
LogoutSignOut(ok) ==
  /\ auth.logout = "idle"
  /\ auth.user # NoUser
  /\ auth' = IF ok THEN Emit([auth EXCEPT !.session = NoUser, !.logout = "signedOut"], NoUser)
               ELSE [auth EXCEPT !.logout = "signedOut"]
  /\ UNCHANGED backend

\* logout: setUser(null), and logout() has completed
LogoutDone ==
  /\ auth.logout = "signedOut"
  /\ auth' = [auth EXCEPT !.user = NoUser, !.logout = "idle",
                          !.signedOut = (auth.session = NoUser)]
  /\ UNCHANGED backend

\* SharingService.validateShareToken: one SELECT
Validate(uid, token, ok) ==
  LET r == validateShareToken(uid, token, ok)
  IN /\ lastRet' = [Ret0 EXCEPT !.op = "validateShareToken",
                                !.userId = r.userId, !.error = r.error]
     /\ UNCHANGED <<shared, views, projects, now, creator, tracker, viewer, revoked, modal, auth>>

\* PublicProjectService.isValidShareToken: one SELECT
IsValid(uid, token, ok) ==
  LET r == isValidShareToken(uid, token, ok)
  IN /\ lastRet' = [Ret0 EXCEPT !.op = "isValidShareToken",
                                !.isValid = r.isValid, !.error = r.error]
     /\ UNCHANGED <<shared, views, projects, now, creator, tracker, viewer, revoked, modal, auth>>

\* SharingService.getViewStats: getUser, then the RPC get_dashboard_view_stats
GetViewStats(uid, token, ok) ==
  LET r == getViewStats(uid, token, ok)
  IN /\ lastRet' = [Ret0 EXCEPT !.op = "getViewStats", !.caller = uid, !.token = token,
                                !.stats = r.stats, !.error = r.error]
     /\ UNCHANGED <<shared, views, projects, now, creator, tracker, viewer, revoked, modal, auth>>

\* the value of the page's state once its load has ended: the project list is
\* shown for the token, or the error screen is
PageShown(token) == [pc |-> "shown", uid |-> NoUser, userId |-> NoUser, token |-> token]
PageError == [pc |-> "error", uid |-> NoUser, userId |-> NoUser, token |-> NoToken]

\* the page is mounted (or mounted again) and no load is in flight
PageAtRest(v) == viewer[v].pc \in {"idle", "shown", "error"}

\* SharedDashboard mounts with the route's token and its effect calls
\* getProjectsByShareToken; first query: the token's row
ViewShare(v, uid, token, ok) ==
  /\ PageAtRest(v)
  /\ LET q == ShareLookup(uid, token, ok)
     IN IF q.error # NoError
          THEN /\ lastRet' = [Ret0 EXCEPT !.op = "getProjectsByShareToken",
                                          !.token = token,
                                          !.projects = ShareError(q).projects,
                                          !.profile = ShareError(q).profile,
                                          !.error = ShareError(q).error]
               /\ viewer' = [viewer EXCEPT ![v] = PageError]
          ELSE /\ viewer' = [viewer EXCEPT ![v] =
                    [pc |-> "profile", uid |-> uid, userId |-> shared[q.row].user_id,
                     token |-> token]]
               /\ UNCHANGED lastRet
  /\ UNCHANGED <<shared, views, projects, now, creator, tracker, revoked, modal, auth>>

\* getProjectsByShareToken, second query: the owner's profile, .single()
ViewProfile(v, ok) ==
  /\ viewer[v].pc = "profile"
  /\ LET q == IF ok THEN Single({u \in ProfilesVisible(viewer[v].uid) : u = viewer[v].userId})
                    ELSE TransportFailure
     IN IF q.error # NoError
          THEN /\ lastRet' = [Ret0 EXCEPT !.op = "getProjectsByShareToken",
                                          !.projects = ProfileError(q).projects,
                                          !.profile = ProfileError(q).profile,
                                          !.error = ProfileError(q).error]
               /\ viewer' = [viewer EXCEPT ![v] = PageError]
          ELSE /\ viewer' = [viewer EXCEPT ![v].pc = "projects"]
               /\ UNCHANGED lastRet
  /\ UNCHANGED <<shared, views, projects, now, creator, tracker, revoked, modal, auth>>

\* getProjectsByShareToken, third query: the owner's projects, mapped, and the
\* return; the page then shows the list (setProjects) or the error (setError)
ViewProjects(v, ok) ==
  /\ viewer[v].pc = "projects"
  /\ lastRet' =
       IF ok
         THEN [Ret0 EXCEPT !.op = "getProjectsByShareToken",
                           !.projects = ProjectsOf(viewer[v].uid, viewer[v].userId),
                           !.profile = PublicProfileOf(viewer[v].userId)]
         ELSE [Ret0 EXCEPT !.op = "getProjectsByShareToken",
                           !.projects = ProjectsError(TransportFailure).projects,
                           !.profile = ProjectsError(TransportFailure).profile,
                           !.error = ProjectsError(TransportFailure).error]
  /\ viewer' = [viewer EXCEPT ![v] =
       IF ok THEN PageShown(viewer[v].token) ELSE PageError]
  /\ UNCHANGED <<shared, views, projects, now, creator, tracker, revoked, modal, auth>>

\* track_dashboard_view: the transaction starts and looks the token up
TrackSelect(k, token, ip) ==
  /\ tracker[k].pc = "idle"
  /\ \A j \in Trackers : j < k => tracker[j].pc # "idle"
  /\ LET id == TrackLookup(token, now)
     IN tracker' = [tracker EXCEPT ![k] =
          IF id = NoRow
            THEN [pc |-> "done", token |-> token, ip |-> NoIp, at |-> 0,
                  dashboard_id |-> NoRow, ret |-> FALSE]
            ELSE [pc |-> "found", token |-> token, ip |-> ip, at |-> now,
                  dashboard_id |-> id, ret |-> FALSE]]
  /\ UNCHANGED <<shared, views, projects, now, creator, viewer, revoked, lastRet, modal, auth>>

\* track_dashboard_view: the relative UPDATE under the row lock, the INSERT, and
\* the commit that makes both visible together
TrackWrite(k) ==
  /\ tracker[k].pc = "found"
  /\ shared' = IncrementViewCount(shared, tracker[k].dashboard_id)
  /\ views' = Append(views,
       NewViewRow(tracker[k].dashboard_id, tracker[k].ip, tracker[k].at))
  /\ tracker' = [tracker EXCEPT ![k] =
       [pc |-> "done", token |-> tracker[k].token, ip |-> NoIp, at |-> 0,
        dashboard_id |-> tracker[k].dashboard_id, ret |-> TRUE]]
  /\ UNCHANGED <<projects, now, creator, viewer, revoked, lastRet, modal, auth>>

\* the visitor's connection is used for another track_dashboard_view call
TrackAgain(k) ==
  /\ tracker[k].pc = "done"
  /\ Len(views) < MaxViews
  /\ tracker' = [tracker EXCEPT ![k] = IdleTracker]
  /\ UNCHANGED <<shared, views, projects, now, creator, viewer, revoked, lastRet, modal, auth>>

Addressed == {j \in Ids(views) : views[j].viewer_ip # NoIp}

TrackedViews == {k \in Trackers : tracker[k].pc = "done" /\ tracker[k].ret = TRUE}

\* any holder of the project's public API key posts a row to dashboard_views
\* through the REST interface; the insert policy admits every row, the
\* foreign key wants an existing shared_dashboards id
DirectViewInsert(uid, id, ip) ==
  /\ Len(views) - Cardinality(TrackedViews) < MaxDirect
  /\ id \in Ids(shared)
  /\ PublicInsertViewPolicy(NewViewRow(id, ip, now), uid)
  /\ views' = Append(views, NewViewRow(id, ip, now))
  /\ UNCHANGED <<shared, projects, now, creator, tracker, viewer, revoked, lastRet, modal, auth>>

Next ==
  \/ Tick
  \/ \E u \in Callers, gh \in GithubInputs, ok \in BOOLEAN : createProject(u, gh, ok)
  \/ \E c \in Creators, u \in Callers, e \in ExpiryInputs : CreateStart(c, u, e)
  \/ \E c \in Creators, ok \in BOOLEAN : CreateDeactivate(c, ok)
  \/ \E c \in Creators, ok \in BOOLEAN : CreateInsert(c, ok)
  \/ \E u \in Callers, ok \in BOOLEAN : Deactivate(u, ok)
  \/ \E u \in Callers, t \in TokenInputs, ok \in BOOLEAN : Validate(u, t, ok)
  \/ \E u \in Callers, t \in TokenInputs, ok \in BOOLEAN : IsValid(u, t, ok)
  \/ \E u \in Callers, t \in TokenInputs, ok \in BOOLEAN : GetViewStats(u, t, ok)
  \/ \E v \in Viewers, u \in Callers, t \in TokenInputs, ok \in BOOLEAN : ViewShare(v, u, t, ok)
  \/ \E v \in Viewers, ok \in BOOLEAN : ViewProfile(v, ok)
  \/ \E v \in Viewers, ok \in BOOLEAN : ViewProjects(v, ok)
  \/ \E k \in Trackers, t \in TokenInputs, ip \in IpInputs : TrackSelect(k, t, ip)
  \/ \E k \in Trackers : TrackWrite(k)
  \/ \E k \in Trackers : TrackAgain(k)
  \/ \E u \in Callers, id \in 1..MaxTokens, ip \in IpInputs : DirectViewInsert(u, id, ip)

Spec == Init /\ [][Next]_vars

\* the issuing workflow alone: owners' sessions create and deactivate links
Issue ==
  \/ Tick
  \/ \E c \in Creators, u \in Callers, e \in ExpiryInputs : CreateStart(c, u, e)
  \/ \E c \in Creators, ok \in BOOLEAN : CreateDeactivate(c, ok)
  \/ \E c \in Creators, ok \in BOOLEAN : CreateInsert(c, ok)
  \/ \E u \in Callers, ok \in BOOLEAN : Deactivate(u, ok)

SpecShare == Init /\ [][Issue]_vars

\* the issuing workflow with token validation by anyone
NextValidate ==
  \/ Issue
  \/ \E u \in Callers, t \in TokenInputs, ok \in BOOLEAN : Validate(u, t, ok)
  \/ \E u \in Callers, t \in TokenInputs, ok \in BOOLEAN : IsValid(u, t, ok)

SpecValidate == Init /\ [][NextValidate]_vars

\* the issuing workflow with the public listing of the owner's projects
NextPublic ==
  \/ Issue
  \/ \E u \in Callers, gh \in GithubInputs, ok \in BOOLEAN : createProject(u, gh, ok)
  \/ \E v \in Viewers, u \in Callers, t \in TokenInputs, ok \in BOOLEAN : ViewShare(v, u, t, ok)
  \/ \E v \in Viewers, ok \in BOOLEAN : ViewProfile(v, ok)
  \/ \E v \in Viewers, ok \in BOOLEAN : ViewProjects(v, ok)

SpecPublic == Init /\ [][NextPublic]_vars

\* one link, several projects of several owners, and one page load at a time
NextListing ==
  \/ Tick
  \/ \E u \in Users, e \in ExpiryInputs : shared = <<>> /\ CreateStart(1, u, e)
  \/ \E ok \in BOOLEAN : CreateDeactivate(1, ok)
  \/ \E ok \in BOOLEAN : CreateInsert(1, ok)
  \/ \E u \in Users, ok \in BOOLEAN : Deactivate(u, ok)
  \/ \E u \in Users, gh \in GithubInputs, ok \in BOOLEAN :
        createProjectUpTo(MaxListed, u, gh, ok)
  \/ \E u \in Callers, t \in TokenInputs, ok \in BOOLEAN : ViewShare(1, u, t, ok)
  \/ \E ok \in BOOLEAN : ViewProfile(1, ok)
  \/ \E ok \in BOOLEAN : ViewProjects(1, ok)

SpecListing == Init /\ [][NextListing]_vars

\* one owner's share dialog and the views of the links it created
NextModal ==
  \/ Tick
  \/ \E u \in Users, ok \in BOOLEAN, okStats \in BOOLEAN : ModalOpen(u, ok, okStats)
  \/ ModalClose
  \/ ModalGenerate(1)
  \/ \E ok \in BOOLEAN : ModalGenerateUpdate(ok)
  \/ \E ok \in BOOLEAN : ModalGenerateInsert(ok)
  \/ \E ok \in BOOLEAN : ModalDeactivate(ok)
  \/ \E t \in TokenInputs : TrackSelect(1, t, NoIp)
  \/ TrackWrite(1)

SpecModal == Init /\ [][NextModal]_vars

\* the AuthProvider from its mount on
NextAuth ==
  \/ \E u \in Callers, ok \in BOOLEAN : InitConfirm(u, ok)
  \/ \E ok \in BOOLEAN : InitFetch(ok)
  \/ \E ok \in BOOLEAN : InitGetUser(ok)
  \/ InitProfile
  \/ TimerFires
  \/ AuthEvent
  \/ \E i \in 1..MaxPending : AuthCallback(i)
  \/ \E u \in Users, ok \in BOOLEAN : LoginStart(u, ok)
  \/ LoginDone
  \/ \E ok \in BOOLEAN : LogoutSignOut(ok)
  \/ LogoutDone

SpecAuth == InitAuth /\ [][NextAuth]_vars

\* timers fire and a promise raced with a timeout settles; a network request
\* without a timeout (setSession, the connection test, signOut) may hang
SpecAuthFair ==
  /\ SpecAuth
  /\ WF_vars(TimerFires)
  /\ WF_vars(\E ok \in BOOLEAN : InitGetUser(ok))
  /\ WF_vars(InitProfile)
  /\ WF_vars(\E i \in 1..MaxPending : AuthCallback(i))
  /\ WF_vars(LoginDone)
  /\ WF_vars(LogoutDone)

\* the owners' own operations: issuing, deactivating, creating projects
NextOwner ==
  \/ Issue
  \/ \E u \in Callers, gh \in GithubInputs, ok \in BOOLEAN : createProject(u, gh, ok)

SpecOwner == Init /\ [][NextOwner]_vars

\* the issuing workflow with view tracking by visitors that send no address
NextTrack ==
  \/ Issue
  \/ \E k \in Trackers, t \in TokenInputs : TrackSelect(k, t, NoIp)
  \/ \E k \in Trackers : TrackWrite(k)

SpecTrack == Init /\ [][NextTrack]_vars

\* view tracking next to callers that write to dashboard_views directly
NextDirect ==
  \/ NextTrack
  \/ \E u \in Callers, id \in 1..MaxTokens : DirectViewInsert(u, id, NoIp)

SpecDirect == Init /\ [][NextDirect]_vars

\* the issuing workflow with one visitor at a time being tracked, and the
\* owner's statistics
NextStats ==
  \/ Issue
  \/ \E t \in TokenInputs, ip \in IpInputs : TrackSelect(1, t, ip)
  \/ TrackWrite(1)
  \/ \E u \in Callers, t \in TokenInputs, ok \in BOOLEAN : GetViewStats(u, t, ok)

SpecStats == Init /\ [][NextStats]_vars

\* one owner issues one link without expiry, and one visitor after another is
\* tracked on it; at most MaxAddressed of the visitors send an address
NextRecent ==
  \/ Tick
  \/ \E u \in Users : shared = <<>> /\ CreateStart(1, u, NoExpiry)
  \/ \E ok \in BOOLEAN : CreateDeactivate(1, ok)
  \/ \E ok \in BOOLEAN : CreateInsert(1, ok)
  \/ \E t \in TokenInputs, ip \in AddressInputs :
       /\ ip # NoIp => Cardinality(Addressed) < MaxAddressed
       /\ TrackSelect(1, t, ip)
  \/ TrackWrite(1)
  \/ TrackAgain(1)

SpecRecent == Init /\ [][NextRecent]_vars

\* ------------------------------------------------------------- properties
\* the validity of a share record as the specification words it: active, and
\* expiry absent or strictly in the future
RecordValid(row) ==
  row.is_active /\ (row.expires_at = NoExpiry \/ now < row.expires_at)

ValidRowsOf(t) == {i \in Ids(shared) : shared[i].share_token = t /\ RecordValid(shared[i])}

AllTokens == 0..MaxTokens

\* C1: when createShareToken returns a token with error = null, the owner has
\* exactly one active record, it is the record just inserted (it carries the
\* returned token and view counter 0), and every record of the owner that was
\* active before the insert (so also every one active when the call began and
\* still active then) is inactive.
C1_CreateLeavesOneActive ==
  [][\A c \in Creators :
       (/\ creator[c].pc = "insert"
        /\ creator'[c].pc = "idle"
        /\ lastRet'.error = NoError)
       => LET u == creator[c].user
              act == ActiveIn(shared', u)
          IN /\ Cardinality(act) = 1
             /\ \A i \in act : /\ i \notin Ids(shared)
                               /\ shared'[i].share_token = lastRet'.shareToken
                               /\ shared'[i].view_count = 0
             /\ \A j \in ActiveIn(shared, u) : ~shared'[j].is_active]_vars

\* C2: in every reachable state each owner has at most one active share record.
C2_AtMostOneActive ==
  \A u \in Users : Cardinality(ActiveIn(shared, u)) <= 1

DoneCalls(t) == {k \in Trackers : tracker[k].pc = "done" /\ tracker[k].token = t}

\* C3: for every share record, the view counter and the number of view rows
\* both equal the number of completed tracking calls on its token that returned
\* true, and while the record is active and unexpired every completed call on
\* its token has returned true: N calls raise the counter by exactly N.
C3_NoLostViews ==
  \A i \in Ids(shared) :
    LET calls == DoneCalls(shared[i].share_token)
        good == {k \in calls : tracker[k].ret = TRUE}
    IN /\ shared[i].view_count = Cardinality(good)
       /\ Cardinality(ViewsOf(i)) = Cardinality(good)
       /\ RecordValid(shared[i]) => good = calls

C3_Witness ==
  \E i \in Ids(shared) :
    /\ RecordValid(shared[i])
    /\ shared[i].view_count >= 2
    /\ Cardinality(DoneCalls(shared[i].share_token)) >= 2

\* C4: a tracking call that starts on a token with no active, unexpired record
\* (never issued, deactivated or expired) returns false at once and changes no
\* share record and no view row.
C4_InvalidTrackNoEffect ==
  [][\A k \in Trackers :
       (/\ tracker[k].pc = "idle"
        /\ tracker'[k].pc # "idle"
        /\ ValidRowsOf(tracker'[k].token) = {})
       => /\ tracker'[k].pc = "done"
          /\ tracker'[k].ret = FALSE
          /\ shared' = shared
          /\ views' = views]_vars

C4_Witness ==
  \E k \in Trackers :
    /\ tracker[k].pc = "done"
    /\ tracker[k].ret = FALSE
    /\ RowsOfToken(shared, tracker[k].token) # {}
    /\ \E j \in Trackers : tracker[j].pc = "done" /\ tracker[j].ret = TRUE

\* C5: for every caller and token, validateShareToken returns a user id exactly
\* when a record with that token is active and unexpired, and then the id is
\* that record's owner; isValidShareToken answers true in exactly the same
\* cases; a lookup that fails in transport returns no user id.
C5_ValidateIffValid ==
  \A uid \in Callers, t \in AllTokens :
    LET r == validateShareToken(uid, t, TRUE)
        f == validateShareToken(uid, t, FALSE)
        v == isValidShareToken(uid, t, TRUE)
    IN /\ (r.userId # NoUser) <=> (ValidRowsOf(t) # {})
       /\ \A i \in ValidRowsOf(t) : r.userId = shared[i].user_id
       /\ v.isValid <=> (ValidRowsOf(t) # {})
       /\ f.userId = NoUser

C5_Witness ==
  /\ lastRet.op = "validateShareToken"
  /\ lastRet.userId # NoUser
  /\ \E i \in Ids(shared) : shared[i].is_active /\ shared[i].expires_at = now

\* C6: in every state and for every token and caller, the lookup of
\* track_dashboard_view finds a record exactly when validateShareToken returns
\* a user id; an expired record is found by neither, like an inactive one.
C6_TrackAgreesWithValidate ==
  \A uid \in Callers, t \in AllTokens :
    /\ (TrackLookup(t, now) # NoRow) <=> (validateShareToken(uid, t, TRUE).userId # NoUser)
    /\ \A i \in RowsOfToken(shared, t) :
         (~shared[i].is_active \/ (shared[i].expires_at # NoExpiry /\ shared[i].expires_at <= now))
         => /\ TrackLookup(t, now) = NoRow
            /\ validateShareToken(uid, t, TRUE).userId = NoUser

C6_Witness ==
  \E k \in Trackers, i \in Ids(shared) :
    /\ tracker[k].pc = "done"
    /\ tracker[k].ret = FALSE
    /\ shared[i].share_token = tracker[k].token
    /\ shared[i].is_active
    /\ shared[i].expires_at # NoExpiry /\ shared[i].expires_at <= now

\* C7: for a token whose record belongs to another user than the caller (or to
\* nobody), get_dashboard_view_stats returns no row and getViewStats returns no
\* statistics but an error, whatever the record's validity and views.
C7_StatsOnlyForOwner ==
  \A uid \in Callers, t \in AllTokens, ok \in BOOLEAN :
    (\A i \in RowsOfToken(shared, t) : shared[i].user_id # uid)
    => /\ get_dashboard_view_stats(t, uid) = {}
       /\ getViewStats(uid, t, ok).stats = NoStats
       /\ getViewStats(uid, t, ok).error # NoError
       /\ (uid # NoUser /\ ok) => getViewStats(uid, t, ok).error = NoStatistics

C7_Witness ==
  /\ lastRet.op = "getViewStats"
  /\ lastRet.caller # NoUser
  /\ lastRet.error = NoStatistics
  /\ \E i \in ValidRowsOf(lastRet.token) :
       shared[i].user_id # lastRet.caller /\ shared[i].view_count > 0

\* C8: no project returned by getProjectsByShareToken carries the owner's
\* GitHub URL.
C8_NoGithubUrlReturned ==
  lastRet.op = "getProjectsByShareToken"
  => \A k \in DOMAIN lastRet.projects : lastRet.projects[k].githubUrl = ""

\* C9: once a deactivation has succeeded, in every later state the first query
\* of getProjectsByShareToken on a token it deactivated finds no row, for every
\* caller, and the call returns the not-found outcome: no projects, no profile,
\* 'Invalid or expired share token'.
C9_RevokedStaysNotFound ==
  \A t \in revoked, uid \in Callers :
    LET q == ShareLookup(uid, t, TRUE)
    IN /\ q.error = NoRowsError
       /\ ShareError(q) = [projects |-> <<>>, profile |-> NoProfile, error |-> InvalidToken]
       /\ ShareError(ShareLookup(uid, t, FALSE)).projects = <<>>
       /\ ShareError(ShareLookup(uid, t, FALSE)).profile = NoProfile

C9_Witness ==
  /\ lastRet.op = "getProjectsByShareToken"
  /\ lastRet.token \in revoked
  /\ lastRet.error = InvalidToken
  /\ \E i \in RowsOfToken(shared, lastRet.token) : ActiveIn(shared, shared[i].user_id) # {}

\* C10: deactivateShareToken by an owner without an active record returns
\* error = null and leaves the table as it is; a second call directly after a
\* first successful one does so too.
C10_DeactivateIdempotent ==
  \A u \in Users :
    LET r1 == deactivateShareToken(shared, u, TRUE)
        r2 == deactivateShareToken(r1.shared, u, TRUE)
    IN /\ r2.error = NoError
       /\ r2.shared = r1.shared
       /\ ActiveIn(shared, u) = {} => (r1.error = NoError /\ r1.shared = shared)

C10_Witness ==
  /\ lastRet.op = "deactivateShareToken"
  /\ lastRet.error = NoError
  /\ lastRet.updated = 0
  /\ revoked # {}

\* C11: when a visit to /shared/{token} has ended with the project list shown,
\* view tracking has run for that token: the record's view counter is at least
\* one and a view row references it.  The page's load is over in that state,
\* so nothing of the visit is still to come.
C11_VisitIsTracked ==
  \A v \in Viewers :
    viewer[v].pc = "shown"
    => \A i \in RowsOfToken(shared, viewer[v].token) :
         shared[i].view_count >= 1 /\ ViewsOf(i) # {}

\* C12: in every step, a record's view counter changes exactly when a view row
\* referencing it is inserted (both or neither), and only for a record that is
\* active and unexpired at the moment of that write.
C12_TrackWriteAtomicAndValid ==
  [][\A i \in Ids(shared) :
       LET counted == shared'[i].view_count # shared[i].view_count
           logged == \E j \in Ids(views') \ Ids(views) : views'[j].shared_dashboard_id = i
       IN /\ counted <=> logged
          /\ counted => RecordValid(shared[i])]_vars


\* C13: a createShareToken call whose deactivating update failed, or whose
\* insert failed, returns no token and a non-null error.
C13_CreateFailureSurfaces ==
  [][\A c \in Creators :
       (/\ creator[c].pc = "insert"
        /\ creator'[c].pc = "idle"
        /\ (creator[c].failed \/ Len(shared') = Len(shared)))
       => /\ lastRet'.shareToken = NoToken
          /\ lastRet'.error # NoError]_vars


\* C14: every service operation whose storage round trip fails returns a
\* non-null error and a null or empty result: the one-query operations for
\* every caller and token in every state, and the multi-query operations
\* (createShareToken, getProjectsByShareToken, createProject) at the step
\* that returns.
C14_StorageErrorsReturned ==
  [][/\ \A uid \in Callers, t \in AllTokens :
          /\ validateShareToken(uid, t, FALSE).error # NoError
          /\ validateShareToken(uid, t, FALSE).userId = NoUser
          /\ isValidShareToken(uid, t, FALSE).error # NoError
          /\ ~isValidShareToken(uid, t, FALSE).isValid
          /\ getViewStats(uid, t, FALSE).error # NoError
          /\ getViewStats(uid, t, FALSE).stats = NoStats
          /\ deactivateShareToken(shared, uid, FALSE).error # NoError
          /\ ShareError(ShareLookup(uid, t, FALSE)).error # NoError
          /\ ShareError(ShareLookup(uid, t, FALSE)).projects = <<>>
          /\ ShareError(ShareLookup(uid, t, FALSE)).profile = NoProfile
     /\ \A c \in Creators :
          (/\ creator[c].pc = "insert"
           /\ creator'[c].pc = "idle"
           /\ (creator[c].failed \/ Len(shared') = Len(shared)))
          => (lastRet'.error # NoError /\ lastRet'.shareToken = NoToken)
     /\ \A v \in Viewers :
          (viewer[v].pc \in {"profile", "projects"} /\ viewer'[v].pc = "error")
          => /\ lastRet'.error # NoError
             /\ lastRet'.projects = <<>>
             /\ lastRet'.profile = NoProfile
     /\ (lastRet'.op = "createProject" /\ lastRet' # lastRet /\ projects' = projects)
          => lastRet'.error # NoError]_vars


\* C15: every owner-scoped operation called without an authenticated user
\* returns 'User not authenticated', whatever the tables hold and whatever the
\* fate of a round trip would be (it makes none), and changes no table.
C15_UnauthenticatedRefused ==
  [][/\ \A ok \in BOOLEAN, t \in AllTokens :
          /\ getCurrentShareToken(NoUser, ok)
               = [shareToken |-> NoToken, error |-> NotAuthenticated]
          /\ getCurrentShareTokenWithStats(NoUser, ok)
               = [shareToken |-> NoToken, viewCount |-> 0, error |-> NotAuthenticated]
          /\ getSharedDashboards(NoUser, ok)
               = [dashboards |-> <<>>, error |-> NotAuthenticated]
          /\ getViewStats(NoUser, t, ok) = [stats |-> NoStats, error |-> NotAuthenticated]
          /\ deactivateShareToken(shared, NoUser, ok)
               = [shared |-> shared, updated |-> {}, error |-> NotAuthenticated]
          /\ getProjects(NoUser, ok) = [projects |-> <<>>, error |-> NotAuthenticated]
          /\ \A id \in 1..MaxProjects, gh \in GithubInputs :
               /\ getProject(NoUser, id, ok)
                    = [project |-> NoProject, error |-> NotAuthenticated]
               /\ updateProject(projects, NoUser, id, gh, ok)
                    = [projects |-> projects, error |-> NotAuthenticated]
               /\ deleteProject(projects, NoUser, id, ok)
                    = [projects |-> projects, error |-> NotAuthenticated]
     /\ \A c \in Creators, e \in ExpiryInputs :
          CreateStart(c, NoUser, e)
          => /\ lastRet'.error = NotAuthenticated
             /\ lastRet'.shareToken = NoToken
             /\ UNCHANGED <<shared, views, projects, creator>>
     /\ \A gh \in GithubInputs, ok \in BOOLEAN :
          createProject(NoUser, gh, ok)
          => /\ lastRet'.error = NotAuthenticated
             /\ UNCHANGED <<shared, views, projects>>
     /\ \A ok \in BOOLEAN :
          Deactivate(NoUser, ok)
          => /\ lastRet'.error = NotAuthenticated
             /\ UNCHANGED <<shared, views, projects>>]_vars

C15_Witness ==
  /\ lastRet.op = "deactivateShareToken"
  /\ lastRet.error = NotAuthenticated
  /\ \E i \in Ids(shared) : shared[i].is_active
  /\ projects # <<>>


\* C16: whenever a public token operation finds no valid record for a token,
\* the value it returns differs from every value it returns when a round trip
\* fails: for validateShareToken, isValidShareToken and getProjectsByShareToken
\* (whose round trip may fail at the token, the profile or the projects query).
C16_NotFoundIsNotFailure ==
  \A uid \in Callers, t \in AllTokens :
    ShareLookup(uid, t, TRUE).error = NoRowsError
    => \A uid2 \in Callers, t2 \in AllTokens :
         /\ validateShareToken(uid, t, TRUE) # validateShareToken(uid2, t2, FALSE)
         /\ isValidShareToken(uid, t, TRUE) # isValidShareToken(uid2, t2, FALSE)
         /\ ShareError(ShareLookup(uid, t, TRUE)) # ShareError(ShareLookup(uid2, t2, FALSE))
         /\ ShareError(ShareLookup(uid, t, TRUE)) # ProfileError(TransportFailure)
         /\ ShareError(ShareLookup(uid, t, TRUE)) # ProjectsError(TransportFailure)

C16_Witness ==
  /\ lastRet.op = "validateShareToken"
  /\ lastRet.error = InvalidToken
  /\ \E i \in Ids(shared) : ~shared[i].is_active
  /\ \E i \in Ids(shared) : RecordValid(shared[i])


\* number of the rows in S that were viewed at time x
ViewedAtCount(S, x) == Cardinality({j \in S : views[j].viewed_at = x})

\* number of the positions of the sequence r that hold x
Occurrences(r, x) == Cardinality({k \in DOMAIN r : r[k] = x})

\* C17: for an active record and its owner, get_dashboard_view_stats returns
\* one row: total_views is the number of the record's view rows, unique_ips
\* the number of distinct non-null addresses among them, recent_views the
\* min(10, total) latest timestamps in descending order; getViewStats hands
\* the same numbers on.
C17_StatsAreExact ==
  \A i \in Ids(shared) :
    shared[i].is_active
    => LET u == shared[i].user_id
           ev == {j \in Ids(views) : views[j].shared_dashboard_id = i}
           data == get_dashboard_view_stats(shared[i].share_token, u)
           s == getViewStats(u, shared[i].share_token, TRUE).stats
       IN /\ Cardinality(data) = 1
          /\ \A d \in data :
               LET r == d.recent_views
               IN /\ d.total_views = Cardinality(ev)
                  /\ d.unique_ips
                       = Cardinality({a \in AddressInputs \ {NoIp} :
                                       \E j \in ev : views[j].viewer_ip = a})
                  /\ Len(r) = IF Cardinality(ev) < 10 THEN Cardinality(ev) ELSE 10
                  /\ \A k \in 1..(Len(r) - 1) : r[k] >= r[k + 1]
                  /\ \A x \in 0..MaxTime :
                       /\ Occurrences(r, x) <= ViewedAtCount(ev, x)
                       /\ (Len(r) > 0 /\ x > r[Len(r)])
                            => Occurrences(r, x) = ViewedAtCount(ev, x)
                  /\ s = [found |-> TRUE, totalViews |-> d.total_views,
                          uniqueIps |-> d.unique_ips, recentViews |-> r]

C17_Witness ==
  \E i \in Ids(shared) :
    LET ev == {j \in Ids(views) : views[j].shared_dashboard_id = i}
    IN /\ shared[i].is_active
       /\ Cardinality(ev) > 10
       /\ Cardinality({views[j].viewer_ip : j \in ev}) = 3
       /\ views[1].viewed_at < now
       /\ \E j \in ev : views[j].viewed_at = now


\* C18: in every reachable state the number of view rows that reference a
\* share record equals the number of tracking calls that succeeded for it and
\* equals its view counter.
C18_ViewsMatchCounter ==
  \A i \in Ids(shared) :
    /\ Cardinality(ViewsOf(i))
         = Cardinality({k \in TrackedViews : tracker[k].dashboard_id = i})
    /\ Cardinality(ViewsOf(i)) = shared[i].view_count


\* C19: in every step of the application's operations no share record
\* disappears, every record keeps its owner, token and expiry, and no view
\* counter decreases.
C19_CountersGrowRecordsStay ==
  [][/\ Len(shared') >= Len(shared)
     /\ \A i \in Ids(shared) :
          /\ shared'[i].view_count >= shared[i].view_count
          /\ shared'[i].user_id = shared[i].user_id
          /\ shared'[i].share_token = shared[i].share_token
          /\ shared'[i].expires_at = shared[i].expires_at]_vars

C19_Witness ==
  \E i, j \in Ids(shared) :
    /\ i < j
    /\ shared[i].user_id = shared[j].user_id
    /\ ~shared[i].is_active
    /\ shared[i].view_count >= 1
    /\ shared[j].is_active

\* C20: when getProjectsByShareToken returns its list for a token whose record
\* is valid at the projects query, the list holds every project of the
\* record's owner, each once, no project of any other user, and is ordered by
\* creation time, newest first.
C20_ListingIsTheOwnersNewestFirst ==
  [][\A v \in Viewers :
       (/\ viewer[v].pc = "projects"
        /\ viewer'[v].pc = "shown"
        /\ ValidRowsOf(viewer[v].token) # {})
       => LET owner == shared[CHOOSE i \in ValidRowsOf(viewer[v].token) : TRUE].user_id
              owned == {i \in Ids(projects) : projects[i].user_id = owner}
              list  == lastRet'.projects
          IN /\ lastRet'.error = NoError
             /\ Len(list) = Cardinality(owned)
             /\ {list[k].id : k \in DOMAIN list} = owned
             /\ \A k \in 1..(Len(list) - 1) : list[k].createdAt > list[k + 1].createdAt]_vars

\* a list of two projects of the owner has been shown for a valid token while
\* another user's project is stored between them
C20_Witness ==
  /\ lastRet.op = "getProjectsByShareToken"
  /\ lastRet.error = NoError
  /\ Len(lastRet.projects) = 2
  /\ \E v \in Viewers :
       /\ viewer[v].pc = "shown"
       /\ \E i \in ValidRowsOf(viewer[v].token) :
            /\ Len(projects) = 3
            /\ projects[1].user_id = shared[i].user_id
            /\ projects[2].user_id # shared[i].user_id
            /\ projects[3].user_id = shared[i].user_id

\* C21: the profile getProjectsByShareToken returns to an anonymous caller
\* carries the owner's display name and no email address: its email field is
\* empty and its display name is not the address.
C21_PublicProfileIsNameOnly ==
  [][\A v \in Viewers :
       (/\ viewer[v].pc = "projects"
        /\ viewer[v].uid = NoUser
        /\ viewer'[v].pc = "shown")
       => /\ lastRet'.profile.email = ""
          /\ lastRet'.profile.displayName # profiles[viewer[v].userId].email]_vars

\* C22: in every state, for an owner with no active, unexpired share record
\* (never shared, deactivated, or expired), the rows of projects and of profiles
\* that the row-level policies let an anonymous SELECT see hold none of that
\* owner's projects and not that owner's profile.
C22_PrivateWithoutValidRecord ==
  \A u \in Users :
    (~ \E i \in Ids(shared) : shared[i].user_id = u /\ RecordValid(shared[i]))
    => /\ \A p \in ProjectsVisible(NoUser) : projects[p].user_id # u
       /\ u \notin ProfilesVisible(NoUser)

\* an owner with a project whose only share record is no longer valid
C22_Witness ==
  \E u \in Users :
    /\ \E p \in Ids(projects) : projects[p].user_id = u
    /\ \E i \in Ids(shared) : shared[i].user_id = u
    /\ \A i \in Ids(shared) : shared[i].user_id = u => ~RecordValid(shared[i])

\* C23: whenever the share dialog is open and idle (no load and no call in
\* flight) and shows a token as Active, that token is the token of an active
\* share record of the dialog's user in storage.
C23_ShownTokenIsActive ==
  (modal.pc = "idle" /\ modal.shareToken # NoToken)
  => \E i \in Ids(shared) :
       /\ shared[i].share_token = modal.shareToken
       /\ shared[i].user_id = modal.user
       /\ shared[i].is_active

\* C24: from mount on, loading eventually becomes false and stays false: on
\* every fair behaviour it is false from some point on, and no step takes it
\* from false back to true.
C24_LoadingEnds ==
  /\ <>[](auth.loading = FALSE)
  /\ [][auth.loading = FALSE => auth'.loading = FALSE]_vars

\* loading was ended by the timer while initializeAuth still waits for a
\* request that has no timeout
C24_Witness ==
  /\ auth.loading = FALSE
  /\ auth.timer = "fired"
  /\ auth.init \in {"confirm", "fetch"}

\* C30: once logout() has completed with the session gone, and until a later
\* sign-in, a listener handler that finishes its profile lookup leaves the
\* user null.
C30_SignedOutStaysNull ==
  [][(auth.signedOut /\ Len(auth'.pending) < Len(auth.pending))
       => auth'.user = NoUser]_vars

\* C25: a read of shared_dashboards that the row-level policies permit to an
\* unauthenticated caller who supplies no token returns no record: the caller
\* learns no share_token and no user_id.
C25_AnonymousLearnsNoToken ==
  SelectSharedDashboards(NoUser) = {}

\* C26: a createShareToken call that returns an error has deactivated no
\* record: every record of the owner that was active before the call is still
\* active when it returns.
C26_FailedCreateRevokesNothing ==
  [][\A c \in Creators :
       (/\ creator[c].pc = "insert"
        /\ creator'[c].pc = "idle"
        /\ lastRet'.op = "createShareToken"
        /\ lastRet'.error # NoError)
       => creator[c].updated = 0]_vars

\* C27: no step turns is_active of a share record from false to true, and in
\* every state the token of an inactive record is rejected: validateShareToken
\* answers 'Invalid or expired share token' for every caller and the lookup of
\* track_dashboard_view finds no record.
C27_NoReactivation ==
  /\ [][\A i \in Ids(shared) :
          ~shared[i].is_active => (i \in Ids(shared') /\ ~shared'[i].is_active)]_vars
  /\ [](\A i \in Ids(shared) :
          ~shared[i].is_active
          => /\ \A uid \in Callers :
                  validateShareToken(uid, shared[i].share_token, TRUE) =
                    [userId |-> NoUser, error |-> InvalidToken]
             /\ TrackLookup(shared[i].share_token, now) = NoRow)

\* one unexpired record was replaced by createShareToken and another was
\* revoked by deactivateShareToken
C27_Witness ==
  \E i, j \in Ids(shared) :
    /\ ~shared[i].is_active /\ shared[i].expires_at = NoExpiry
    /\ shared[i].share_token \notin revoked
    /\ ~shared[j].is_active /\ shared[j].expires_at = NoExpiry
    /\ shared[j].share_token \in revoked

C29_StatsIgnoreExpiry ==
  \A uid \in Callers, t \in AllTokens :
    LET owned == \E i \in Ids(shared) :
                   /\ shared[i].share_token = t
                   /\ uid # NoUser /\ shared[i].user_id = uid
                   /\ shared[i].is_active
        r == getViewStats(uid, t, TRUE)
    IN /\ (get_dashboard_view_stats(t, uid) # {}) <=> owned
       /\ owned => (r.error = NoError /\ r.stats.found)
       /\ (uid # NoUser /\ ~owned) => (r.error = NoStatistics /\ r.stats = NoStats)

\* the owner was given the statistics of an active record whose expiry has
\* passed, while another record of the same owner is deactivated
C29_Witness ==
  /\ lastRet.op = "getViewStats"
  /\ lastRet.error = NoError
  /\ lastRet.stats.found
  /\ \E i, j \in Ids(shared) :
       /\ shared[i].share_token = lastRet.token
       /\ shared[i].user_id = lastRet.caller
       /\ shared[i].is_active
       /\ shared[i].expires_at # NoExpiry /\ shared[i].expires_at <= now
       /\ shared[j].user_id = lastRet.caller
       /\ ~shared[j].is_active


=============================================================================
